---- MODULE Spec2Model ----
(***************************************************************************)
(* Model of process_analyzer.py: analyze_dataframe turns an event table    *)
(* (case_id, step, optional timestamp) into stats, a transition graph and  *)
(* time KPIs (compute_kpis).  Timestamps are whole hours; reported hour    *)
(* values are kept in hundredths of an hour, as round(x, 2) leaves them.   *)
(***************************************************************************)
EXTENDS Integers, Sequences, FiniteSets, TLC

\* ---------------------------------------------------------------- bounds
\* Largest table drawn by Init (general specification).
MaxRows == 3
\* Largest table drawn by InitKpi (single case, every timestamp valid).
MaxRowsKpi == 5

\* Values of the cells of each column of the input table.
Cases == {1, 2}
Steps == {"A", "B"}
RawTimestamps == {"00:00", "01:00", "02:00", "n/a"}
AllColumns == {"case_id", "step", "timestamp"}

\* --------------------------------------------------------- program values
\* pd.NaT: what pd.to_datetime(errors="coerce") gives for an unparsable cell.
NaT == -1
\* Python None: the value of the cycle-time figures when no case qualifies.
None == -1
\* The [:3] slices that give slowest_steps and slowest_transitions.
SlowestN == 3

VARIABLES
    columns,  \* the column names of the input DataFrame df
    table,    \* the rows of df, in input order; a row maps each column to a cell
    pc,       \* "called" | "returned" | "raised"
    events,   \* the normalized log (events after the sort), each row with its
              \* input position in field row
    result    \* <<>> until the call returns; then <<[stats, graph, kpi]>>

vars == <<columns, table, pc, events, result>>

\* ------------------------------------------------------------ sequences
Range(s) == {s[i] : i \in DOMAIN s}

Take(s, n) == SubSeq(s, 1, IF Len(s) < n THEN Len(s) ELSE n)

RECURSIVE SumSeq(_)
SumSeq(s) == IF s = <<>> THEN 0 ELSE s[1] + SumSeq(Tail(s))

Min(S) == CHOOSE x \in S : \A y \in S : x <= y
Max(S) == CHOOSE x \in S : \A y \in S : x >= y

\* The orderings of the elements of the finite set S, as sequences.
Orderings(S) ==
    {p \in [1..Cardinality(S) -> S] : \A i, j \in DOMAIN p : i # j => p[i] # p[j]}

\* The distinct elements of s in the order of their first occurrence.
RECURSIVE FirstSeen(_)
FirstSeen(s) ==
    IF s = <<>> THEN <<>>
    ELSE LET f == FirstSeen(SubSeq(s, 1, Len(s) - 1))
             x == s[Len(s)]
         IN IF x \in Range(f) THEN f ELSE Append(f, x)

\* -------------------------------------------------------------- parsing
\* pd.to_datetime(..., errors="coerce") on one cell: the hour, or NaT.
ToDatetime(cell) ==
    CASE cell = "00:00" -> 0
      [] cell = "01:00" -> 1
      [] cell = "02:00" -> 2
      [] cell = "03:00" -> 3
      [] cell = "04:00" -> 4
      [] cell = "05:00" -> 5
      [] OTHER -> NaT

\* round(x, 2) of the float sum/count, in hundredths (ties to even).
Round2(sum, count) ==
    LET n == 100 * sum
        q == n \div count
        r == n % count
    IN  IF 2 * r < count THEN q
        ELSE IF 2 * r > count THEN q + 1
        ELSE IF q % 2 = 0 THEN q ELSE q + 1

\* ---------------------------------------------------------------- input
RowsOver(cols, cases, steps, stamps) ==
    {[k \in cols |-> [case_id |-> c, step |-> s, timestamp |-> t][k]] :
        c \in cases, s \in steps, t \in stamps}

TablesOver(rows, n) == UNION {[1..m -> rows] : m \in 0..n}

Init ==
    /\ columns \in SUBSET AllColumns
    /\ table \in TablesOver(RowsOver(columns, Cases, Steps, RawTimestamps), MaxRows)
    /\ pc = "called"
    /\ events = <<>>
    /\ result = <<>>

\* ------------------------------------------------ analyze_dataframe: sort
\* events = df.copy() with the timestamp column parsed (lines 120-124).
ParsedEvents(cols, tab) ==
    [i \in DOMAIN tab |->
        IF "timestamp" \in cols
        THEN [row |-> i, case_id |-> tab[i].case_id, step |-> tab[i].step,
              timestamp |-> ToDatetime(tab[i].timestamp)]
        ELSE [row |-> i, case_id |-> tab[i].case_id, step |-> tab[i].step]]

\* Order of the sort keys (case_id, timestamp), NaT last (na_position="last").
TimestampLess(x, y) == x # NaT /\ (y = NaT \/ x < y)

KeyLess(a, b) ==
    \/ a.case_id < b.case_id
    \/ a.case_id = b.case_id /\ TimestampLess(a.timestamp, b.timestamp)

\* Mutant of LexSort: the rows are left in input order.
LexSortSkipped(s) == s

\* sort_values on two columns: a lexsort, which is stable.
RECURSIVE LexSort(_)
LexSort(s) ==
    IF s = <<>> THEN <<>>
    ELSE LET sorted == LexSort(SubSeq(s, 1, Len(s) - 1))
             e == s[Len(s)]
             k == Cardinality({i \in DOMAIN sorted : ~KeyLess(e, sorted[i])})
         IN SubSeq(sorted, 1, k) \o <<e>> \o SubSeq(sorted, k + 1, Len(sorted))

\* sort_values on the single column case_id: kind="quicksort", which is not
\* stable; any arrangement with case_id non-decreasing is a possible outcome.
QuickSortOutcomes(s) ==
    {[i \in DOMAIN s |-> s[p[i]]] : p \in
        {q \in Orderings(DOMAIN s) :
            \A i, j \in DOMAIN s : i < j => s[q[i]].case_id <= s[q[j]].case_id}}

\* The outcomes of lines 126-130.
SortOutcomes(cols, ev) ==
    IF "timestamp" \in cols THEN {LexSort(ev)} ELSE QuickSortOutcomes(ev)

\* ----------------------------------------------- analyze_dataframe: stats
\* events["case_id"].nunique()
NumCases(ev) == Cardinality({ev[i].case_id : i \in DOMAIN ev})

\* Mutant of StepCount: a label is counted once per case it occurs in.
StepCountPerCase(ev, s) ==
    Cardinality({ev[i].case_id : i \in {j \in DOMAIN ev : ev[j].step = s}})

\* The count of one label in events["step"].value_counts().
StepCount(ev, s) == Cardinality({i \in DOMAIN ev : ev[i].step = s})

\* events["step"].value_counts(): one entry per distinct label, sorted by
\* descending count with the default sort kind, which leaves the order of equal
\* counts open.
step_counts(ev) ==
    LET labels == {ev[i].step : i \in DOMAIN ev}
    IN  {p \in Orderings(labels) :
            \A i, j \in DOMAIN p : i < j => StepCount(ev, p[i]) >= StepCount(ev, p[j])}

\* nodes, from one outcome of step_counts.
nodes(ev, counts) ==
    [i \in DOMAIN counts |-> [id |-> counts[i], count |-> StepCount(ev, counts[i])]]

\* ----------------------------------------------- analyze_dataframe: edges
\* The group keys of events.groupby("case_id"), ascending.
RECURSIVE Ascending(_)
Ascending(S) ==
    IF S = {} THEN <<>>
    ELSE LET m == Min(S) IN <<m>> \o Ascending(S \ {m})

\* Mutant of steps_seq: the steps of the whole log, whatever the case.
steps_seq_whole_log(ev, c) == [i \in DOMAIN ev |-> ev[i].step]

\* group["step"].tolist() of one case.
steps_seq(ev, c) ==
    LET InCase(e) == e.case_id = c
        group == SelectSeq(ev, InCase)
    IN  [i \in DOMAIN group |-> group[i].step]

\* zip(steps_seq, steps_seq[1:])
Zip(seq) == [i \in 1..(Len(seq) - 1) |-> <<seq[i], seq[i + 1]>>]

\* Every (a, b) the loop of lines 145-148 adds one to, in the order it does.
RECURSIVE EdgeObservationsOf(_, _)
EdgeObservationsOf(ev, caseSeq) ==
    IF caseSeq = <<>> THEN <<>>
    ELSE Zip(steps_seq(ev, caseSeq[1])) \o EdgeObservationsOf(ev, Tail(caseSeq))

EdgeObservations(ev) ==
    EdgeObservationsOf(ev, Ascending({ev[i].case_id : i \in DOMAIN ev}))

\* Mutant of edge_counter: the count is set to 1 instead of being added to.
edge_counter_assigned(obs, key) == 1

\* edge_counter: the count of one key.
edge_counter(obs, key) == Cardinality({i \in DOMAIN obs : obs[i] = key})

\* edges: the items of edge_counter, in insertion order.
edges(ev) ==
    LET obs == EdgeObservations(ev)
        keys == FirstSeen(obs)
    IN  [i \in DOMAIN keys |->
            [from |-> keys[i][1], to |-> keys[i][2], count |-> edge_counter(obs, keys[i])]]

\* ------------------------------------------------------------ compute_kpis
\* Mutant of HasTimestamp: dropna keeps every row.
HasTimestampAlways(e) == TRUE

\* The rows that dropna(subset=["timestamp"]) keeps.
HasTimestamp(e) == e.timestamp # NaT

\* Mutant of AllNaT: only an empty log counts as having no timestamp.
AllNaTOnlyIfEmpty(ev) == ev = <<>>

\* df["timestamp"].isna().all()
AllNaT(ev) == \A i \in DOMAIN ev : ev[i].timestamp = NaT

\* Mutant of cycle: the latest timestamp of each case, the earliest not deducted.
cycle_max_only(df) ==
    LET ids == Ascending({df[i].case_id : i \in DOMAIN df})
        Stamps(c) == {df[i].timestamp : i \in {j \in DOMAIN df : df[j].case_id = c}}
    IN  [k \in DOMAIN ids |-> Max(Stamps(ids[k]))]

\* cycle["delta_hours"], one value per case of df, cases ascending.
cycle(df) ==
    LET ids == Ascending({df[i].case_id : i \in DOMAIN df})
        Stamps(c) == {df[i].timestamp : i \in {j \in DOMAIN df : df[j].case_id = c}}
    IN  [k \in DOMAIN ids |-> Max(Stamps(ids[k])) - Min(Stamps(ids[k]))]

cycle_time(df) ==
    LET deltas == cycle(df)
    IN  IF Len(deltas) > 0
        THEN [avg_hours |-> Round2(SumSeq(deltas), Len(deltas)),
              min_hours |-> Round2(Min(Range(deltas)), 1),
              max_hours |-> Round2(Max(Range(deltas)), 1)]
        ELSE [avg_hours |-> None, min_hours |-> None, max_hours |-> None]

\* groupby("case_id").shift(-1): the position of the next row of the same case,
\* 0 when there is none.
NextInCase(df, i) ==
    LET later == {j \in DOMAIN df : j > i /\ df[j].case_id = df[i].case_id}
    IN  IF later = {} THEN 0 ELSE Min(later)

\* df with next_timestamp, next_step and delta_hours (lines 45-51); isna marks a
\* row whose shifted values are missing.
WithDeltas(df) ==
    [i \in DOMAIN df |->
        LET n == NextInCase(df, i)
        IN  IF n = 0
            THEN [step |-> df[i].step, next_step |-> "", delta_hours |-> 0, isna |-> TRUE]
            ELSE [step |-> df[i].step, next_step |-> df[n].step,
                  delta_hours |-> df[n].timestamp - df[i].timestamp, isna |-> FALSE]]

\* Mutant of mask: a gap of zero hours is dropped too.
mask_positive_only(r) == ~r.isna /\ r.delta_hours > 0

\* mask = delta_hours.notna() & (delta_hours >= 0)
mask(r) == ~r.isna /\ r.delta_hours >= 0

df_dur(df) == SelectSeq(WithDeltas(LexSort(df)), mask)

\* The sum of delta_hours over the rows of one group.
DeltaSum(picked) == SumSeq([i \in DOMAIN picked |-> picked[i].delta_hours])

\* groupby("step")["delta_hours"].agg(["count", "mean"]); the mean is kept as
\* sum over count.
step_stats(dur) ==
    {LET Sel(r) == r.step = s
     IN  [step |-> s, count |-> Len(SelectSeq(dur, Sel)),
          sum |-> DeltaSum(SelectSeq(dur, Sel))] :
        s \in {dur[i].step : i \in DOMAIN dur}}

\* groupby(["step", "next_step"])["delta_hours"].agg(["count", "mean"])
trans_stats(dur) ==
    {LET Sel(r) == r.step = t[1] /\ r.next_step = t[2]
     IN  [step |-> t[1], next_step |-> t[2],
          count |-> Len(SelectSeq(dur, Sel)), sum |-> DeltaSum(SelectSeq(dur, Sel))] :
        t \in {<<dur[i].step, dur[i].next_step>> : i \in DOMAIN dur}}

\* a has a mean at least b's.
MeanGeq(a, b) == a.sum * b.count >= b.sum * a.count

\* Mutant of SortByMeanOutcomes: ascending order.
SortByMeanAscending(stats) ==
    {p \in Orderings(stats) : \A i, j \in DOMAIN p : i < j => MeanGeq(p[j], p[i])}

\* .sort_values("mean", ascending=False): the default sort kind leaves the
\* order of equal means open.
SortByMeanOutcomes(stats) ==
    {p \in Orderings(stats) : \A i, j \in DOMAIN p : i < j => MeanGeq(p[i], p[j])}

steps_duration(sorted) ==
    [i \in DOMAIN sorted |->
        [step |-> sorted[i].step,
         avg_hours |-> Round2(sorted[i].sum, sorted[i].count),
         count |-> sorted[i].count]]

transitions_duration(sorted) ==
    [i \in DOMAIN sorted |->
        [from |-> sorted[i].step, to |-> sorted[i].next_step,
         avg_hours |-> Round2(sorted[i].sum, sorted[i].count),
         count |-> sorted[i].count]]

\* Every value compute_kpis(events) can return.
compute_kpis(cols, ev) ==
    IF "timestamp" \notin cols THEN {[has_timestamp |-> FALSE]}
    ELSE IF AllNaT(ev) THEN {[has_timestamp |-> FALSE]}
    ELSE LET df == SelectSeq(ev, HasTimestamp)
             dur == df_dur(df)
         IN  {[has_timestamp |-> TRUE,
               cycle_time |-> cycle_time(df),
               steps_duration |-> steps_duration(ss),
               slowest_steps |-> Take(steps_duration(ss), SlowestN),
               transitions_duration |-> transitions_duration(ts),
               slowest_transitions |-> Take(transitions_duration(ts), SlowestN)] :
                ss \in SortByMeanOutcomes(step_stats(dur)),
                ts \in SortByMeanOutcomes(trans_stats(dur))}

\* -------------------------------------------------------- analyze_dataframe
\* Mutant of SchemaOk: the timestamp column is required too.
SchemaOkWithTimestamp(cols) == {"case_id", "step", "timestamp"} \subseteq cols

\* The schema check of lines 117-118.
SchemaOk(cols) == {"case_id", "step"} \subseteq cols

stats(ev) ==
    [num_cases |-> NumCases(ev),
     num_events |-> Len(ev),
     num_steps |-> Cardinality({ev[i].step : i \in DOMAIN ev}),
     num_transitions |-> Len(edges(ev))]

\* Every (normalized log, returned value) a call on the table can end with
\* (lines 120-174): one per outcome of the sorts whose order of equal keys is open.
AnalyzeOutcomes(cols, tab) ==
    UNION {UNION {{[events |-> ev,
                    result |-> [stats |-> stats(ev),
                                graph |-> [nodes |-> nodes(ev, counts),
                                           edges |-> edges(ev)],
                                kpi |-> kpi]] :
                      kpi \in compute_kpis(cols, ev)} :
                  counts \in step_counts(ev)} :
           ev \in SortOutcomes(cols, ParsedEvents(cols, tab))}

analyze_dataframe ==
    /\ pc = "called"
    /\ IF ~SchemaOk(columns)
       THEN /\ pc' = "raised"
            /\ UNCHANGED <<events, result>>
       ELSE \E out \in AnalyzeOutcomes(columns, table) :
                /\ events' = out.events
                /\ result' = <<out.result>>
                /\ pc' = "returned"
    /\ UNCHANGED <<columns, table>>

Next == analyze_dataframe

Spec == Init /\ [][Next]_vars

\* The calls on a one-case table whose timestamps all parse.
InitKpi ==
    /\ columns = AllColumns
    /\ table \in TablesOver(RowsOver(columns, {1}, Steps, {"00:00", "01:00"}), MaxRowsKpi)
    /\ pc = "called"
    /\ events = <<>>
    /\ result = <<>>

SpecKpi == InitKpi /\ [][Next]_vars

\* The five rows of the end-to-end scenario, in the order they are given.
ScenarioTable ==
    <<[case_id |-> 1, step |-> "submit", timestamp |-> "00:00"],
      [case_id |-> 1, step |-> "review", timestamp |-> "02:00"],
      [case_id |-> 1, step |-> "approve", timestamp |-> "05:00"],
      [case_id |-> 2, step |-> "submit", timestamp |-> "00:00"],
      [case_id |-> 2, step |-> "review", timestamp |-> "01:00"]>>

\* The calls on the scenario's rows, in every input order.
InitScenario ==
    /\ columns = AllColumns
    /\ table \in Orderings(Range(ScenarioTable))
    /\ pc = "called"
    /\ events = <<>>
    /\ result = <<>>

SpecScenario == InitScenario /\ [][Next]_vars

\* =================================================================== claims
Returned == pc = "returned"
res == result[1]

\* The input rows, parsed, that carry a usable timestamp.
ValidRows == {i \in DOMAIN table : ToDatetime(table[i].timestamp) # NaT}
RowsOfCase(c) == {i \in DOMAIN table : table[i].case_id = c}
Hour(i) == ToDatetime(table[i].timestamp)

RECURSIVE SumOver(_, _)
SumOver(S, f) ==
    IF S = {} THEN 0
    ELSE LET x == CHOOSE y \in S : TRUE IN f[x] + SumOver(S \ {x}, f)

\* C1 (count conservation): whenever analyze_dataframe returns, the counts of
\* graph.nodes add up to stats.num_events, which is the number of rows of the
\* normalized log (and of the input table).
C1_CountConservation ==
    Returned =>
        /\ SumSeq([i \in DOMAIN res.graph.nodes |-> res.graph.nodes[i].count])
              = res.stats.num_events
        /\ res.stats.num_events = Len(events)
        /\ res.stats.num_events = Len(table)

C1_Witness ==
    /\ Returned
    /\ Len(res.graph.nodes) = 2
    /\ res.stats.num_events = 3
    /\ res.stats.num_cases = 2

\* A case whose only two rows carry timestamps [t0, t0 - 1h] in input order,
\* while no other case has two usable timestamps.
BackwardCase(c) ==
    /\ "timestamp" \in columns
    /\ \E i, j \in DOMAIN table :
          /\ i < j
          /\ RowsOfCase(c) = {i, j}
          /\ {i, j} \subseteq ValidRows
          /\ Hour(i) = Hour(j) + 1
    /\ \A d \in Cases \ {c} : Cardinality(RowsOfCase(d) \cap ValidRows) <= 1

\* C2 as stated (duration exclusion): a case with timestamps [t0, t0 - 1h] adds
\* no sample to steps_duration or transitions_duration, and its cycle time is 1h.
C2_AsStated ==
    \A c \in Cases :
        (Returned /\ SchemaOk(columns) /\ BackwardCase(c)) =>
            /\ res.kpi.steps_duration = <<>>
            /\ res.kpi.transitions_duration = <<>>
            /\ res.kpi.cycle_time.max_hours = 100

\* C2 amended: the rows of such a case are ordered by timestamp before the gaps
\* are taken, so the case adds exactly one sample of 1h, from the step of its
\* later input row to the step of its earlier input row; its cycle time is 1h.
C2_BackwardCaseSorted ==
    \A c \in Cases :
        (Returned /\ SchemaOk(columns) /\ BackwardCase(c)) =>
            LET i == Min(RowsOfCase(c))
                j == Max(RowsOfCase(c))
            IN  /\ res.kpi.steps_duration =
                      <<[step |-> table[j].step, avg_hours |-> 100, count |-> 1]>>
                /\ res.kpi.transitions_duration =
                      <<[from |-> table[j].step, to |-> table[i].step,
                         avg_hours |-> 100, count |-> 1]>>
                /\ res.kpi.cycle_time.max_hours = 100
                /\ (Len(table) = 2 =>
                       res.kpi.cycle_time =
                           [avg_hours |-> 100, min_hours |-> 100, max_hours |-> 100])

C2_Witness ==
    /\ Returned
    /\ SchemaOk(columns)
    /\ BackwardCase(1)
    /\ table[1].step # table[2].step
    /\ Len(res.kpi.transitions_duration) = 1

\* The input position at which a step label is first seen.
FirstRow(s) == Min({i \in DOMAIN table : table[i].step = s})

\* C3 (node sort contract): graph.nodes is ordered by descending count, and
\* nodes of equal count appear in the order in which their labels are first
\* seen in the input table.
C3_NodeSortContract ==
    Returned =>
        \A i, j \in DOMAIN res.graph.nodes :
            i < j =>
                LET a == res.graph.nodes[i]
                    b == res.graph.nodes[j]
                IN  \/ a.count > b.count
                    \/ a.count = b.count /\ FirstRow(a.id) < FirstRow(b.id)

\* C4 (stable normalization): within each case the normalized log is ordered by
\* timestamp, rows of equal or missing timestamp keep their input order, and
\* without a timestamp column each case keeps its input order.
C4_StableNormalization ==
    Returned =>
        \A i, j \in DOMAIN events :
            (i < j /\ events[i].case_id = events[j].case_id) =>
                IF "timestamp" \in columns
                THEN /\ ~TimestampLess(events[j].timestamp, events[i].timestamp)
                     /\ (events[i].timestamp = events[j].timestamp
                            => events[i].row < events[j].row)
                ELSE events[i].row < events[j].row

\* The positions of the normalized log at which b directly follows a within one
\* case.
Adjacent(a, b) ==
    {i \in 1..(Len(events) - 1) :
        /\ events[i].case_id = events[i + 1].case_id
        /\ events[i].step = a
        /\ events[i + 1].step = b}

EdgesOf(a, b) ==
    {k \in DOMAIN res.graph.edges :
        res.graph.edges[k].from = a /\ res.graph.edges[k].to = b}

\* C5 (edge counting): the count of edge (a, b) is the number of positions at
\* which b directly follows a inside one case; a pair never observed has no edge;
\* a case of k events adds k - 1 observations, so the counts add up to
\* num_events - num_cases (a single-event case adds none).
C5_EdgeCounting ==
    Returned =>
        /\ \A a, b \in Steps :
              IF Adjacent(a, b) = {}
              THEN EdgesOf(a, b) = {}
              ELSE /\ Cardinality(EdgesOf(a, b)) = 1
                   /\ \A k \in EdgesOf(a, b) :
                         res.graph.edges[k].count = Cardinality(Adjacent(a, b))
        /\ SumSeq([k \in DOMAIN res.graph.edges |-> res.graph.edges[k].count])
              = res.stats.num_events - res.stats.num_cases
        /\ res.stats.num_transitions = Len(res.graph.edges)

\* Two cases, one of a single event, the other with an edge.
C5_Witness ==
    /\ Returned
    /\ res.stats.num_cases = 2
    /\ res.stats.num_events = 3
    /\ Len(res.graph.edges) = 1
    /\ res.graph.edges[1].from # res.graph.edges[1].to

\* C6 (schema rejection): analyze_dataframe raises exactly when 'case_id' or
\* 'step' is not a column of the input, and a call that raised has produced no
\* result and no normalized log.
C6_SchemaRejection ==
    /\ (pc # "called" =>
           (pc = "raised" <=> ("case_id" \notin columns \/ "step" \notin columns)))
    /\ (pc = "raised" => result = <<>> /\ events = <<>>)

C6_Witness ==
    /\ pc = "raised"
    /\ columns = {"case_id", "timestamp"}
    /\ Len(table) = 2

\* No cell of the timestamp column parses, or there is no such column.
NoUsableTimestamp == "timestamp" \notin columns \/ ValidRows = {}

\* C7 (no-timestamp degeneration): with the required columns present and no
\* usable timestamp (no column, or every value unparsable), the call returns,
\* kpi is exactly {has_timestamp: false}, and stats and graph cover every row.
C7_NoTimestampDegeneration ==
    (pc # "called" /\ SchemaOk(columns) /\ NoUsableTimestamp) =>
        /\ Returned
        /\ res.kpi = [has_timestamp |-> FALSE]
        /\ res.stats.num_events = Len(table)
        /\ res.stats.num_cases = Cardinality({table[i].case_id : i \in DOMAIN table})
        /\ {res.graph.nodes[k].id : k \in DOMAIN res.graph.nodes}
              = {table[i].step : i \in DOMAIN table}
        /\ res.stats.num_transitions = Len(res.graph.edges)

\* A timestamp column whose three cells are all unparsable.
C7_Witness ==
    /\ Returned
    /\ "timestamp" \in columns
    /\ Len(table) = 3
    /\ ValidRows = {}
    /\ res.kpi = [has_timestamp |-> FALSE]
    /\ Len(res.graph.edges) > 0

\* The cases with at least one usable timestamp, and the cycle of each.
QualifyingCases == {c \in Cases : RowsOfCase(c) \cap ValidRows # {}}
CaseHours(c) == {Hour(i) : i \in RowsOfCase(c) \cap ValidRows}
CaseCycle == [c \in QualifyingCases |-> Max(CaseHours(c)) - Min(CaseHours(c))]

Parsable(r) == ToDatetime(r.timestamp) # NaT

\* C8 (rows without a usable timestamp): such a row counts in num_events, in its
\* step's node count and in its case's edge observations, and the KPIs are those
\* of the table without these rows: one duration sample per usable row that is
\* not the last usable row of its case.
C8_MissingTimestampRows ==
    (Returned /\ "timestamp" \in columns) =>
        /\ res.stats.num_events = Len(table)
        /\ \A k \in DOMAIN res.graph.nodes :
              res.graph.nodes[k].count =
                  Cardinality({i \in DOMAIN table : table[i].step = res.graph.nodes[k].id})
        /\ SumSeq([k \in DOMAIN res.graph.edges |-> res.graph.edges[k].count])
              = Len(table) - Cardinality({table[i].case_id : i \in DOMAIN table})
        /\ res.kpi \in compute_kpis(columns,
                          LexSort(ParsedEvents(columns, SelectSeq(table, Parsable))))
        /\ (res.kpi.has_timestamp =>
              /\ SumSeq([k \in DOMAIN res.kpi.steps_duration |->
                            res.kpi.steps_duration[k].count])
                    = Cardinality(ValidRows) - Cardinality(QualifyingCases)
              /\ SumSeq([k \in DOMAIN res.kpi.transitions_duration |->
                            res.kpi.transitions_duration[k].count])
                    = Cardinality(ValidRows) - Cardinality(QualifyingCases)
              /\ res.kpi.cycle_time.max_hours
                    = 100 * Max({CaseCycle[c] : c \in QualifyingCases}))

\* One case: a usable row, a row whose timestamp is missing, a usable row.
C8_Witness ==
    /\ Returned
    /\ "timestamp" \in columns
    /\ Len(table) = 3
    /\ RowsOfCase(1) = {1, 2, 3}
    /\ ValidRows = {1, 3}
    /\ Hour(1) < Hour(3)
    /\ res.stats.num_events = 3
    /\ Len(res.kpi.transitions_duration) = 1

\* C9 (cycle time): with has_timestamp true, min/avg/max of cycle_time are the
\* minimum, the mean (rounded to 2 decimals) and the maximum of max - min
\* timestamp over exactly the cases with a usable timestamp; each is >= 0,
\* min <= avg <= max, and the figures are null only if no case qualifies.
C9_CycleTime ==
    (Returned /\ res.kpi.has_timestamp) =>
        LET ct == res.kpi.cycle_time
            n == Cardinality(QualifyingCases)
            total == SumOver(QualifyingCases, CaseCycle)
            err == 100 * total - ct.avg_hours * n
        IN  IF n = 0
            THEN ct = [avg_hours |-> None, min_hours |-> None, max_hours |-> None]
            ELSE /\ \A c \in QualifyingCases : CaseCycle[c] >= 0
                 /\ ct.min_hours = 100 * Min({CaseCycle[c] : c \in QualifyingCases})
                 /\ ct.max_hours = 100 * Max({CaseCycle[c] : c \in QualifyingCases})
                 /\ 2 * err <= n /\ -2 * err <= n
                 /\ 0 <= ct.min_hours
                 /\ ct.min_hours <= ct.avg_hours
                 /\ ct.avg_hours <= ct.max_hours

\* Case 1 spans two hours from a later row to an earlier one; case 2 has no
\* usable timestamp and is not averaged in as zero.
C9_Witness ==
    /\ Returned
    /\ res.kpi.has_timestamp
    /\ QualifyingCases = {1}
    /\ RowsOfCase(2) # {}
    /\ res.kpi.cycle_time = [avg_hours |-> 200, min_hours |-> 200, max_hours |-> 200]

\* Row j is the usable row that follows usable row i in its case, by timestamp
\* and then by input position.
Before(i, j) == Hour(i) < Hour(j) \/ (Hour(i) = Hour(j) /\ i < j)

Follows(i, j) ==
    /\ {i, j} \subseteq ValidRows
    /\ table[i].case_id = table[j].case_id
    /\ Before(i, j)
    /\ ~\E k \in ValidRows :
          table[k].case_id = table[i].case_id /\ Before(i, k) /\ Before(k, j)

StepsWithGap == {table[i].step : i \in {k \in ValidRows : \E j \in ValidRows : Follows(k, j)}}
PairsWithGap ==
    {<<table[p[1]].step, table[p[2]].step>> :
        p \in {q \in ValidRows \X ValidRows : Follows(q[1], q[2])}}

NonIncreasing(list) ==
    \A i, j \in DOMAIN list : i < j => list[i].avg_hours >= list[j].avg_hours

Prefix3(short, list) ==
    /\ Len(short) = (IF Len(list) < 3 THEN Len(list) ELSE 3)
    /\ \A k \in DOMAIN short : short[k] = list[k]

\* C10 (KPI sort order): steps_duration and transitions_duration are ordered by
\* non-increasing mean, hold one entry per distinct step (pair) that has an
\* included gap, and slowest_steps / slowest_transitions are their first
\* min(3, length) entries in the same order.
C10_KpiSortOrder ==
    (Returned /\ res.kpi.has_timestamp) =>
        LET sd == res.kpi.steps_duration
            td == res.kpi.transitions_duration
        IN  /\ NonIncreasing(sd)
            /\ NonIncreasing(td)
            /\ {sd[k].step : k \in DOMAIN sd} = StepsWithGap
            /\ Len(sd) = Cardinality(StepsWithGap)
            /\ {<<td[k].from, td[k].to>> : k \in DOMAIN td} = PairsWithGap
            /\ Len(td) = Cardinality(PairsWithGap)
            /\ \A k \in DOMAIN sd : sd[k].count >= 1
            /\ \A k \in DOMAIN td : td[k].count >= 1
            /\ Prefix3(res.kpi.slowest_steps, sd)
            /\ Prefix3(res.kpi.slowest_transitions, td)

\* Four transitions with different means: the slowest three are a proper prefix.
C10_Witness ==
    /\ Returned
    /\ res.kpi.has_timestamp
    /\ Len(res.kpi.transitions_duration) = 4
    /\ Len(res.kpi.slowest_transitions) = 3
    /\ res.kpi.transitions_duration[1].avg_hours > res.kpi.transitions_duration[4].avg_hours
    /\ Len(res.kpi.steps_duration) = 2
    /\ res.kpi.steps_duration[1].avg_hours > res.kpi.steps_duration[2].avg_hours

\* What the scenario fixes apart from the nodes and the step durations.
ScenarioCommon ==
    /\ res.stats = [num_cases |-> 2, num_events |-> 5, num_steps |-> 3,
                    num_transitions |-> 2]
    /\ res.graph.edges =
          <<[from |-> "submit", to |-> "review", count |-> 2],
            [from |-> "review", to |-> "approve", count |-> 1]>>
    /\ res.kpi.has_timestamp
    /\ res.kpi.cycle_time = [avg_hours |-> 300, min_hours |-> 100, max_hours |-> 500]

\* C11 as stated (end-to-end scenario): on the scenario's table the nodes are
\* submit:2, review:2, approve:1 in that order, the edges submit->review:2 and
\* review->approve:1, the mean cycle time 3h, and the slowest step is review
\* with mean gap 2h (two gaps) ahead of submit with mean gap 1.5h.
C11_AsStated ==
    (Returned /\ table = ScenarioTable) =>
        /\ ScenarioCommon
        /\ res.graph.nodes =
              <<[id |-> "submit", count |-> 2], [id |-> "review", count |-> 2],
                [id |-> "approve", count |-> 1]>>
        /\ res.kpi.steps_duration =
              <<[step |-> "review", avg_hours |-> 200, count |-> 2],
                [step |-> "submit", avg_hours |-> 150, count |-> 2]>>

\* C11 amended: on the scenario's rows (in any input order) stats, edges and
\* cycle time are as stated; submit:2 and review:2 fill the first two node
\* positions and approve:1 the third; the slowest step is review with mean gap
\* 3h from its single gap (review -> approve; review ends case 2, so it has no
\* gap there), ahead of submit with mean gap 1.5h (gaps 2h and 1h).
C11_Scenario ==
    Returned =>
        /\ ScenarioCommon
        /\ Len(res.graph.nodes) = 3
        /\ {res.graph.nodes[1], res.graph.nodes[2]} =
              {[id |-> "submit", count |-> 2], [id |-> "review", count |-> 2]}
        /\ res.graph.nodes[3] = [id |-> "approve", count |-> 1]
        /\ res.kpi.steps_duration =
              <<[step |-> "review", avg_hours |-> 300, count |-> 1],
                [step |-> "submit", avg_hours |-> 150, count |-> 2]>>
        /\ res.kpi.slowest_steps = res.kpi.steps_duration
        /\ res.kpi.transitions_duration =
              <<[from |-> "review", to |-> "approve", avg_hours |-> 300, count |-> 1],
                [from |-> "submit", to |-> "review", avg_hours |-> 150, count |-> 2]>>

C11_Witness ==
    /\ Returned
    /\ table = ScenarioTable
    /\ res.stats.num_events = 5
    /\ res.kpi.steps_duration[1].step = "review"

PairCounts(list) == {<<list[k].from, list[k].to, list[k].count>> : k \in DOMAIN list}

\* C13 (graph/KPI consistency): with at least one usable timestamp, every pair of
\* transitions_duration is an edge of the graph with a count not above the
\* edge's, the counts of steps_duration and of transitions_duration have the same
\* sum, and when every row has a usable timestamp the pairs and counts of
\* transitions_duration are exactly those of graph.edges.
C13_GraphKpiConsistency ==
    (Returned /\ res.kpi.has_timestamp) =>
        LET sd == res.kpi.steps_duration
            td == res.kpi.transitions_duration
            ge == res.graph.edges
        IN  /\ \A k \in DOMAIN td :
                  \E e \in DOMAIN ge :
                      /\ ge[e].from = td[k].from
                      /\ ge[e].to = td[k].to
                      /\ td[k].count <= ge[e].count
            /\ SumSeq([k \in DOMAIN sd |-> sd[k].count])
                  = SumSeq([k \in DOMAIN td |-> td[k].count])
            /\ (ValidRows = DOMAIN table =>
                   /\ PairCounts(td) = PairCounts(ge)
                   /\ Len(td) = Len(ge))

\* A row without a usable timestamp adds an edge observation that the KPI of the
\* same pair does not count.
C13_Witness ==
    /\ Returned
    /\ res.kpi.has_timestamp
    /\ ValidRows # DOMAIN table
    /\ \E k \in DOMAIN res.kpi.transitions_duration :
          \E e \in DOMAIN res.graph.edges :
              /\ res.graph.edges[e].from = res.kpi.transitions_duration[k].from
              /\ res.graph.edges[e].to = res.kpi.transitions_duration[k].to
              /\ res.kpi.transitions_duration[k].count < res.graph.edges[e].count

====
